---- MODULE Spec2Model ----
(***************************************************************************)
(* Model of the notebook ensemble_voting.ipynb: a seeded random stream,    *)
(* synthetic ground truth, synthetic classifiers (independent, correlated  *)
(* and fuzzy), and the two aggregators do_majority / fuzzy_ensemble.       *)
(*                                                                         *)
(* Numbers.  Every Python number is a pair <<q, e>> standing for the real  *)
(* q/4 + e * 2^-54: q counts quarters, e counts units of 2^-54 (half the   *)
(* spacing of the doubles just below 1).  Python's True and False are the  *)
(* numbers 1 and 0 (bool is a subclass of int, True == 1.0), so a boolean  *)
(* sequence and a float sequence are the same kind of value, as they are   *)
(* for np.mean.  Arithmetic rounds as IEEE-754 binary64 does (round to     *)
(* nearest, ties to even).                                                 *)
(***************************************************************************)
EXTENDS Integers, Sequences, FiniteSets

VARIABLES NUM_BITS, rng, ground_truth, classifiers, new_classifier,
          corr_classifiers, fuzzy_sys, prediction, call

vars == <<NUM_BITS, rng, ground_truth, classifiers, new_classifier,
          corr_classifiers, fuzzy_sys, prediction, call>>

(***************************************************************************)
(* Bounds of the model.                                                    *)
(***************************************************************************)
\* draws the random stream holds when the session starts
MaxStream == 5
\* largest num_bits given to create_ground_truth
MaxBits == 2
\* largest num_classifiers given to a synthesizer
MaxClassifiers == 3

\* the number of classifiers test_majority and test_fuzzy make
TestClassifiers == 3
\* largest ensemble handed directly to an aggregator
MaxVoters == 4
\* longest sequence in an ensemble handed directly to an aggregator
MaxVoteBits == 1

(***************************************************************************)
(* Numbers                                                                 *)
(***************************************************************************)
False == <<0, 0>>
True == <<4, 0>>
Half == <<2, 0>>

\* a < b on the reals the pairs stand for (|e| stays far below 2^52)
Lt(a, b) == a[1] < b[1] \/ (a[1] = b[1] /\ a[2] < b[2])

Gt(a, b) == Lt(b, a)

\* the largest power of two that is <= q, for q >= 1
RECURSIVE Pow2Floor(_)
Pow2Floor(q) == IF q <= 1 THEN 1 ELSE 2 * Pow2Floor(q \div 2)

\* x / u rounded to the nearest integer, ties to the even one (u >= 1)
RoundNearestEven(x, u) ==
    LET lo == IF x >= 0 THEN x \div u ELSE -((-x + u - 1) \div u)
        rem == x - lo * u
    IN  IF 2 * rem < u THEN lo
        ELSE IF 2 * rem > u THEN lo + 1
        ELSE IF lo % 2 = 0 THEN lo ELSE lo + 1

\* the spacing, in units of 2^-54, of the doubles around q/4 + e*2^-54
Spacing(q, e) ==
    IF q <= 0 THEN 1
    ELSE IF e < 0 /\ Pow2Floor(q) = q
         THEN (IF q = 1 THEN 1 ELSE q \div 2)
         ELSE Pow2Floor(q)

\* the double nearest to the real q/4 + e*2^-54 (ties to even)
fl(q, e) ==
    IF e = 0 THEN <<q, 0>>
    ELSE LET u == Spacing(q, e) IN <<q, u * RoundNearestEven(e, u)>>

\* a + b in float64
fl_add(a, b) == fl(a[1] + b[1], a[2] + b[2])

\* a / 2 in float64: exact (the model's values keep q and e even here)
fl_half(a) == <<a[1] \div 2, a[2] \div 2>>


(***************************************************************************)
(* The random stream.  rng.random() returns k * 2^-53 for 0 <= k < 2^53;   *)
(* the model draws from the smallest value, the middle and the largest:    *)
(* 0, 0.5 and 1 - 2^-53.                                                   *)
(***************************************************************************)
Draws == {<<0, 0>>, <<2, 0>>, <<4, -2>>}

\* flip probabilities tried: -0.25, 0, 0.5, 1, 1.25
FlipRatios == {<<-1, 0>>, <<0, 0>>, <<2, 0>>, <<4, 0>>, <<5, 0>>}

\* the next n values of the stream, and the stream after n draws
Take(s, n) == SubSeq(s, 1, n)
Drop(s, n) == SubSeq(s, n + 1, Len(s))

\* create_ground_truth over range(1, num_bits)
create_ground_truth_short(num_bits, draws) ==
    [x \in 1..(num_bits - 1) |-> IF Gt(draws[x], Half) THEN True ELSE False]

(***************************************************************************)
(* create_ground_truth: [rng.random() > .5 for x in range(num_bits)]       *)
(***************************************************************************)
create_ground_truth(num_bits, draws) ==
    [x \in 1..num_bits |-> IF Gt(draws[x], Half) THEN True ELSE False]

\* Python's truth value of a number, and not(bit)
truthy(bit) == bit # False
py_not(bit) == IF truthy(bit) THEN False ELSE True

\* one pass of the inner loop over a fresh copy of seq: position i is
\* negated when the i-th draw of the pass is < flip
flip_pass(seq, flip, draws) ==
    [i \in 1..Len(seq) |-> IF Lt(draws[i], flip) THEN py_not(seq[i]) ELSE seq[i]]

\* the draws of pass c (1-based) over a sequence of length n
PassDraws(draws, c, n) == SubSeq(draws, (c - 1) * n + 1, c * n)

\* the list all classifiers alias when ground_truth is not copied: pass c
\* flips what passes 1..c-1 left behind
RECURSIVE shared_after(_, _, _, _)
shared_after(gt, c, flip, draws) ==
    IF c = 0 THEN gt
    ELSE flip_pass(shared_after(gt, c - 1, flip, draws), flip, PassDraws(draws, c, Len(gt)))

\* create_classifiers without .copy(): every classifier is the same list
create_classifiers_alias(gt, num_classifiers, flip_ratio, draws) ==
    [c \in 1..num_classifiers |-> shared_after(gt, num_classifiers, flip_ratio, draws)]

\* create_classifiers with <= in place of <
create_classifiers_le(gt, num_classifiers, flip_ratio, draws) ==
    [c \in 1..num_classifiers |->
        [i \in 1..Len(gt) |->
            IF ~Gt(PassDraws(draws, c, Len(gt))[i], flip_ratio)
            THEN py_not(gt[i]) ELSE gt[i]]]

(***************************************************************************)
(* create_classifiers: num_classifiers copies of ground_truth, each        *)
(* visited in order, one draw per position.                                *)
(***************************************************************************)
create_classifiers(gt, num_classifiers, flip_ratio, draws) ==
    [c \in 1..num_classifiers |-> flip_pass(gt, flip_ratio, PassDraws(draws, c, Len(gt)))]

\* make_corr_classifiers taking the previous output as the next base
make_corr_classifiers_chained(base_sys, flip, num_classifiers, draws) ==
    [x \in 1..num_classifiers |-> shared_after(base_sys, x, flip, draws)]

(***************************************************************************)
(* make_corr_classifiers: each new_sys is a copy of base_sys, flipped      *)
(* where the draw is < flip.                                               *)
(***************************************************************************)
make_corr_classifiers(base_sys, flip, num_classifiers, draws) ==
    [x \in 1..num_classifiers |-> flip_pass(base_sys, flip, PassDraws(draws, x, Len(base_sys)))]

\* fuzzy_ground with rng.random() + .5 for a true bit
fuzzy_ground_shifted(input, draws) ==
    [i \in 1..Len(input) |->
        IF truthy(input[i]) THEN fl_add(draws[i], Half)
        ELSE fl_half(draws[i])]

(***************************************************************************)
(* fuzzy_ground: (rng.random() + 1) / 2 for a true bit, rng.random() / 2   *)
(* for a false one.                                                        *)
(***************************************************************************)
fuzzy_ground(input, draws) ==
    [i \in 1..Len(input) |->
        IF truthy(input[i]) THEN fl_half(fl_add(draws[i], True))
        ELSE fl_half(draws[i])]

\* create_fuzzy_classifiers flipping and fuzzing one classifier at a time:
\* classifier c takes its n flip draws and then its n fuzz draws
create_fuzzy_classifiers_interleaved(gt, num_classifiers, flip_ratio, draws) ==
    LET n == Len(gt)
    IN  [c \in 1..num_classifiers |->
            fuzzy_ground(flip_pass(gt, flip_ratio, PassDraws(draws, 2 * c - 1, n)),
                         PassDraws(draws, 2 * c, n))]

(***************************************************************************)
(* create_fuzzy_classifiers: all of create_classifiers first, then one     *)
(* fuzzy_ground per classifier.                                            *)
(***************************************************************************)
create_fuzzy_classifiers(gt, num_classifiers, flip_ratio, draws) ==
    LET n == Len(gt)
        regular_classifiers ==
            create_classifiers(gt, num_classifiers, flip_ratio, Take(draws, num_classifiers * n))
        fuzz == Drop(draws, num_classifiers * n)
    IN  [c \in 1..num_classifiers |-> fuzzy_ground(regular_classifiers[c], PassDraws(fuzz, c, n))]

(***************************************************************************)
(* Lists as objects.  The synthesizers write into lists in place, so what  *)
(* a call does to its argument depends on which list each write lands in.  *)
(* A store is the sequence of the list objects of one call, a reference an *)
(* index of it; the argument of the call is the object at reference 1.     *)
(***************************************************************************)
\* .copy() handing back the list it was called on
list_alias(store, ref) == [store |-> store, ref |-> ref]

\* list.copy(): a new object holding the items of the object at ref
list_copy(store, ref) == [store |-> Append(store, store[ref]), ref |-> Len(store) + 1]

\* for count, bit in enumerate(<from>): if rng.random() < flip:
\* <to>[count] = not(bit).  Iteration i reads and writes position i only.
flip_writes(store, to, from, flip, draws) ==
    [store EXCEPT ![to] =
        [i \in 1..Len(store[from]) |->
            IF Lt(draws[i], flip) THEN py_not(store[from][i]) ELSE store[to][i]]]

\* [ground_truth.copy() for x in range(n)]: the store and the references of
\* the copies, in order
RECURSIVE copies(_, _)
copies(store, n) ==
    IF n = 0 THEN [store |-> store, refs |-> <<>>]
    ELSE LET made == copies(store, n - 1)
             copy == list_copy(made.store, 1)
         IN  [store |-> copy.store, refs |-> Append(made.refs, copy.ref)]

\* the store after the first c passes of create_classifiers' outer loop
RECURSIVE create_classifiers_passes(_, _, _, _, _)
create_classifiers_passes(store, refs, c, flip_ratio, draws) ==
    IF c = 0 THEN store
    ELSE flip_writes(create_classifiers_passes(store, refs, c - 1, flip_ratio, draws),
                     refs[c], refs[c], flip_ratio, PassDraws(draws, c, Len(store[1])))

\* create_classifiers on objects: the store when it returns, and the
\* references of the lists it returns
create_classifiers_objects(gt, num_classifiers, flip_ratio, draws) ==
    LET made == copies(<<gt>>, num_classifiers)
    IN  [store |-> create_classifiers_passes(made.store, made.refs, num_classifiers,
                                             flip_ratio, draws),
         refs |-> made.refs]

\* make_corr_classifiers on objects, after x rounds of its outer loop: each
\* round copies base_sys as it is then, and writes into the copy
RECURSIVE make_corr_classifiers_objects(_, _, _, _)
make_corr_classifiers_objects(base_sys, flip, x, draws) ==
    IF x = 0 THEN [store |-> <<base_sys>>, refs |-> <<>>]
    ELSE LET made == make_corr_classifiers_objects(base_sys, flip, x - 1, draws)
             new_sys == list_copy(made.store, 1)
         IN  [store |-> flip_writes(new_sys.store, new_sys.ref, 1, flip,
                                    PassDraws(draws, x, Len(base_sys))),
              refs |-> Append(made.refs, new_sys.ref)]

(***************************************************************************)
(* numpy.  A call returns a record: raised is "none" or the exception,     *)
(* kind is "array" (value holds one entry per position) or "nan" (the      *)
(* scalar nan np.mean gives for an empty list).                            *)
(***************************************************************************)
Returned(kind, value) == [raised |-> "none", kind |-> kind, value |-> value]
Raised(exc) == [raised |-> exc, kind |-> "none", value |-> <<>>]

\* a list of sequences np.asanyarray can make a 2-d array of
Rectangular(a) == \A k \in 1..Len(a) : Len(a[k]) = Len(a[1])

\* add.reduce along axis 0: the rows are added in order, each sum rounded
RECURSIVE column_sum(_, _, _)
column_sum(a, i, k) ==
    IF k = 1 THEN a[1][i] ELSE fl_add(column_sum(a, i, k - 1), a[k][i])

\* np.mean over the positions every sequence has, the longer ones cut short
np_mean_truncating(a) ==
    IF Len(a) = 0 THEN Returned("nan", <<>>)
    ELSE LET n == CHOOSE m \in {Len(a[k]) : k \in 1..Len(a)} :
                      \A k \in 1..Len(a) : m <= Len(a[k])
         IN  Returned("array",
                 [i \in 1..n |-> [sum |-> column_sum(a, i, Len(a)), n |-> Len(a)]])

(***************************************************************************)
(* np.mean(a, axis=0) of a list of sequences.  The empty list is a 1-d     *)
(* array of no elements: the mean is nan (with a RuntimeWarning, no        *)
(* exception).  Sequences of differing lengths make no array: ValueError.  *)
(* Otherwise position i holds the quotient sum / n, kept as the pair of    *)
(* the float64 sum and the count n.                                        *)
(***************************************************************************)
np_mean(a) ==
    IF Len(a) = 0 THEN Returned("nan", <<>>)
    ELSE IF ~Rectangular(a) THEN Raised("ValueError")
    ELSE Returned("array",
             [i \in 1..Len(a[1]) |-> [sum |-> column_sum(a, i, Len(a)), n |-> Len(a)]])

\* float64(sum / n) > 0.5.  The quotient rounds to 0.5 unless the real
\* sum / n exceeds 0.5 + 2^-54 (the tie goes to 0.5, whose mantissa is even).
above_half(m) ==
    m.sum[1] > 2 * m.n \/ (m.sum[1] = 2 * m.n /\ m.sum[2] > m.n)

\* float64(sum / n) >= 0.5: the real sum / n is at least 0.5 - 2^-55
at_least_half(m) ==
    m.sum[1] > 2 * m.n \/ (m.sum[1] = 2 * m.n /\ 2 * m.sum[2] >= -m.n)

\* rounding that sends 0.5 up
rint_half_up(m) == IF at_least_half(m) THEN True ELSE False

\* rounding up to the next integer
rint_ceil(m) == IF m.sum # False THEN True ELSE False

(***************************************************************************)
(* np.round of one value in [0, 1]: round half to even, so 0.5 gives 0.0.  *)
(***************************************************************************)
rint(m) == IF above_half(m) THEN True ELSE False

\* np.round of what np.mean returned (an exception has already propagated)
np_round(r) ==
    IF r.raised # "none" THEN r
    ELSE IF r.kind = "nan" THEN r
    ELSE Returned("array", [i \in 1..Len(r.value) |-> rint(r.value[i])])

\* Series.round / round(series): the same rounding, value by value
round_series(s) == [i \in 1..Len(s) |-> rint([sum |-> s[i], n |-> 1])]

\* do_majority with np.floor in place of np.round: 1.0 only when unanimous
do_majority_floor(classifiers_) ==
    LET r == np_mean(classifiers_)
    IN  IF r.raised # "none" \/ r.kind = "nan" THEN r
        ELSE Returned("array",
                 [i \in 1..Len(r.value) |->
                     IF r.value[i].sum[1] >= 4 * r.value[i].n THEN True ELSE False])

(***************************************************************************)
(* do_majority: np.round(np.mean(classifiers, axis=0))                     *)
(***************************************************************************)
do_majority(classifiers_) == np_round(np_mean(classifiers_))

\* fuzzy_ensemble rounding 0.5 up
fuzzy_ensemble_half_up(classifiers_) ==
    LET r == np_mean(classifiers_)
    IN  IF r.raised # "none" \/ r.kind = "nan" THEN r
        ELSE Returned("array", [i \in 1..Len(r.value) |-> rint_half_up(r.value[i])])

(***************************************************************************)
(* fuzzy_ensemble: rounded = np.round(np.mean(classifiers, axis=0))        *)
(***************************************************************************)
fuzzy_ensemble(classifiers_) == np_round(np_mean(classifiers_))

(***************************************************************************)
(* The notebook.  rng is the stream of values rng.random() has yet to      *)
(* return; ground_truth, classifiers, new_classifier, corr_classifiers and *)
(* fuzzy_sys are the notebook's globals of those names (empty before their *)
(* cell ran); prediction is the last value do_majority, fuzzy_ensemble or  *)
(* fuzzy_ground returned to a cell; call records the last call: its        *)
(* arguments, the draws it consumed and how it ended.                      *)
(*                                                                         *)
(* NUM_BITS is the notebook's constant of that name.  The first cell to    *)
(* run binds ground_truth, which every other cell reads.  After it the     *)
(* cells run in any order and any number of times, each on the globals as  *)
(* the cells before it left them, for as long as the stream has the draws  *)
(* the cell takes.                                                         *)
(*                                                                         *)
(* The stream holds the draws the session may take, MaxStream of them.     *)
(* With NUM_BITS = 0 every sequence is empty and no call ever draws: the   *)
(* stream of such a session is the empty one.                              *)
(***************************************************************************)
NoPrediction == [kind |-> "none", value |-> <<>>]

Call(op, input, count, flip, arg, draws, raised) ==
    [op |-> op, input |-> input, count |-> count, flip |-> flip,
     arg |-> arg, draws |-> draws, raised |-> raised]

NoCall == Call("none", <<>>, 0, False, <<>>, <<>>, "none")

Streams(n) == [1..(IF n = 0 THEN 0 ELSE MaxStream) -> Draws]

Init ==
    /\ NUM_BITS \in 0..MaxBits
    /\ rng \in Streams(NUM_BITS)
    /\ ground_truth = <<>>
    /\ classifiers = <<>>
    /\ new_classifier = <<>>
    /\ corr_classifiers = <<>>
    /\ fuzzy_sys = <<>>
    /\ prediction = NoPrediction
    /\ call = NoCall

\* ground_truth = create_ground_truth(NUM_BITS)
CreateGroundTruth ==
    /\ call.op = "none"
    /\ NUM_BITS <= Len(rng)
    /\ ground_truth' = create_ground_truth(NUM_BITS, Take(rng, NUM_BITS))
    /\ rng' = Drop(rng, NUM_BITS)
    /\ call' = Call("create_ground_truth", <<>>, NUM_BITS, False, <<>>,
                    Take(rng, NUM_BITS), "none")
    /\ UNCHANGED <<NUM_BITS, classifiers, new_classifier, corr_classifiers, fuzzy_sys,
                   prediction>>

\* classifiers = create_classifiers(ground_truth, count, flip)
CreateClassifiers(count, flip) ==
    LET k == count * Len(ground_truth) IN
    /\ call.op # "none"
    /\ k <= Len(rng)
    /\ classifiers' = create_classifiers(ground_truth, count, flip, Take(rng, k))
    /\ rng' = Drop(rng, k)
    /\ ground_truth' =
           create_classifiers_objects(ground_truth, count, flip, Take(rng, k)).store[1]
    /\ call' = Call("create_classifiers", ground_truth, count, flip, <<>>, Take(rng, k), "none")
    /\ UNCHANGED <<NUM_BITS, new_classifier, corr_classifiers, fuzzy_sys, prediction>>

\* new_classifier = create_classifiers(ground_truth, 1, flip_ratio=flip)
NewClassifier(flip) ==
    LET k == Len(ground_truth) IN
    /\ call.op # "none"
    /\ k <= Len(rng)
    /\ new_classifier' = create_classifiers(ground_truth, 1, flip, Take(rng, k))
    /\ rng' = Drop(rng, k)
    /\ ground_truth' =
           create_classifiers_objects(ground_truth, 1, flip, Take(rng, k)).store[1]
    /\ call' = Call("new_classifier", ground_truth, 1, flip, <<>>, Take(rng, k), "none")
    /\ UNCHANGED <<NUM_BITS, classifiers, corr_classifiers, fuzzy_sys, prediction>>

\* corr_classifiers = make_corr_classifiers(new_classifier[0], flip, count)
MakeCorrClassifiers(flip, count) ==
    LET k == count * Len(new_classifier[1]) IN
    /\ Len(new_classifier) >= 1
    /\ k <= Len(rng)
    /\ corr_classifiers' = make_corr_classifiers(new_classifier[1], flip, count, Take(rng, k))
    /\ rng' = Drop(rng, k)
    /\ new_classifier' =
           [new_classifier EXCEPT ![1] =
               make_corr_classifiers_objects(new_classifier[1], flip, count,
                                             Take(rng, k)).store[1]]
    /\ call' = Call("make_corr_classifiers", new_classifier[1], count, flip, <<>>,
                    Take(rng, k), "none")
    /\ UNCHANGED <<NUM_BITS, ground_truth, classifiers, fuzzy_sys, prediction>>

\* fuzzy_sys = create_fuzzy_classifiers(ground_truth, count, flip)
CreateFuzzyClassifiers(count, flip) ==
    LET k == 2 * count * Len(ground_truth) IN
    /\ call.op # "none"
    /\ k <= Len(rng)
    /\ fuzzy_sys' = create_fuzzy_classifiers(ground_truth, count, flip, Take(rng, k))
    /\ rng' = Drop(rng, k)
    /\ ground_truth' =
           create_classifiers_objects(ground_truth, count, flip,
                                      Take(rng, count * Len(ground_truth))).store[1]
    /\ call' = Call("create_fuzzy_classifiers", ground_truth, count, flip, <<>>, Take(rng, k), "none")
    /\ UNCHANGED <<NUM_BITS, classifiers, new_classifier, corr_classifiers, prediction>>

\* the value a call returned, kept when the call raised
Bound(r) == IF r.raised = "none" THEN [kind |-> r.kind, value |-> r.value] ELSE prediction

\* fuzzy_ground(x), its result bound to no global
FuzzyGround(x) ==
    LET k == Len(x) IN
    /\ call.op # "none"
    /\ k <= Len(rng)
    /\ prediction' = [kind |-> "list", value |-> fuzzy_ground(x, Take(rng, k))]
    /\ rng' = Drop(rng, k)
    /\ call' = Call("fuzzy_ground", x, 1, False, <<>>, Take(rng, k), "none")
    /\ UNCHANGED <<NUM_BITS, ground_truth, classifiers, new_classifier, corr_classifiers,
                   fuzzy_sys>>

\* the outcome of an aggregation: the value is bound only when none was raised
Aggregated(op, x, r) ==
    /\ call' = Call(op, <<>>, Len(x), False, x, <<>>, r.raised)
    /\ prediction' = Bound(r)
    /\ UNCHANGED <<NUM_BITS, rng, ground_truth, classifiers, new_classifier,
                   corr_classifiers, fuzzy_sys>>

\* the slices s[:k] of a list
Slices(s) == {SubSeq(s, 1, k) : k \in 0..Len(s)}

\* prediction = do_majority(x)
DoMajority(x) ==
    /\ call.op # "none"
    /\ Aggregated("do_majority", x, do_majority(x))

\* prediction = fuzzy_ensemble(x)
FuzzyEnsemble(x) ==
    /\ call.op # "none"
    /\ Aggregated("fuzzy_ensemble", x, fuzzy_ensemble(x))

\* the labels sklearn finds in the truth and the prediction together
unique_labels(y_true, y_pred) ==
    {y_true[i] : i \in 1..Len(y_true)} \cup {y_pred[i] : i \in 1..Len(y_pred)}

\* classification_report(y_true, y_pred, target_names=['0', '1']): with no
\* labels given, a number of labels other than the two target names raises
classification_report(y_true, y_pred) ==
    IF Cardinality(unique_labels(y_true, y_pred)) # 2 THEN Raised("ValueError")
    ELSE Returned("report", <<>>)

\* how a test ends: the aggregator's exception, or else the report's
Reported(r) ==
    IF r.raised # "none" THEN r.raised
    ELSE classification_report(ground_truth, r.value).raised

\* test_majority(flip): classifiers and ensemble_results are its locals, it
\* prints the report and returns None
TestMajority(flip) ==
    LET k == TestClassifiers * Len(ground_truth)
        local == create_classifiers(ground_truth, TestClassifiers, flip, Take(rng, k))
        r == do_majority(local)
    IN  /\ call.op # "none"
        /\ k <= Len(rng)
        /\ rng' = Drop(rng, k)
        /\ ground_truth' =
               create_classifiers_objects(ground_truth, TestClassifiers, flip,
                                          Take(rng, k)).store[1]
        /\ call' = Call("test_majority", ground_truth, TestClassifiers, flip, local,
                        Take(rng, k), Reported(r))
        /\ UNCHANGED <<NUM_BITS, classifiers, new_classifier, corr_classifiers, fuzzy_sys,
                       prediction>>

\* test_fuzzy(flip): fuzzy_sys and fuzz_ensemble_results are its locals, it
\* prints the report and returns None
TestFuzzy(flip) ==
    LET k == 2 * TestClassifiers * Len(ground_truth)
        local == create_fuzzy_classifiers(ground_truth, TestClassifiers, flip, Take(rng, k))
        r == fuzzy_ensemble(local)
    IN  /\ call.op # "none"
        /\ k <= Len(rng)
        /\ rng' = Drop(rng, k)
        /\ ground_truth' =
               create_classifiers_objects(ground_truth, TestClassifiers, flip,
                   Take(rng, TestClassifiers * Len(ground_truth))).store[1]
        /\ call' = Call("test_fuzzy", ground_truth, TestClassifiers, flip, local,
                        Take(rng, k), Reported(r))
        /\ UNCHANGED <<NUM_BITS, classifiers, new_classifier, corr_classifiers, fuzzy_sys,
                       prediction>>

Next ==
    \/ CreateGroundTruth
    \/ \E count \in 0..MaxClassifiers, flip \in FlipRatios : CreateClassifiers(count, flip)
    \/ \E flip \in FlipRatios : NewClassifier(flip)
    \/ \E flip \in FlipRatios, count \in 0..MaxClassifiers : MakeCorrClassifiers(flip, count)
    \/ \E count \in 0..MaxClassifiers, flip \in FlipRatios : CreateFuzzyClassifiers(count, flip)
    \/ \E x \in {ground_truth} \cup {classifiers[c] : c \in 1..Len(classifiers)} :
           FuzzyGround(x)
    \/ \E x \in Slices(classifiers) \cup Slices(corr_classifiers) : DoMajority(x)
    \/ \E x \in Slices(fuzzy_sys) : FuzzyEnsemble(x)
    \/ \E flip \in FlipRatios : TestMajority(flip)
    \/ \E flip \in FlipRatios : TestFuzzy(flip)

Spec == Init /\ [][Next]_vars

(***************************************************************************)
(* The aggregators as functions of their argument alone: the list handed   *)
(* to do_majority or fuzzy_ensemble is any list of at most MaxVoters       *)
(* sequences of at most MaxVoteBits values among 0, 0.5 and 1, the empty   *)
(* list and lists of sequences of differing lengths included.              *)
(***************************************************************************)
VoteValues == {False, Half, True}

SeqsUpTo(S, n) == UNION {[1..k -> S] : k \in 0..n}

Ensembles == SeqsUpTo(SeqsUpTo(VoteValues, MaxVoteBits), MaxVoters)

InitVote ==
    /\ rng = <<>>
    /\ ground_truth = <<>>
    /\ NUM_BITS = 0
    /\ classifiers = <<>>
    /\ new_classifier = <<>>
    /\ corr_classifiers = <<>>
    /\ fuzzy_sys = <<>>
    /\ prediction = NoPrediction
    /\ \E x \in Ensembles : call = Call("argument", <<>>, Len(x), False, x, <<>>, "none")

\* prediction = do_majority(call.arg)
VoteMajority ==
    /\ call.op = "argument"
    /\ Aggregated("do_majority", call.arg, do_majority(call.arg))

\* prediction = fuzzy_ensemble(call.arg)
VoteFuzzy ==
    /\ call.op = "argument"
    /\ Aggregated("fuzzy_ensemble", call.arg, fuzzy_ensemble(call.arg))

NextVote == VoteMajority \/ VoteFuzzy

SpecVote == InitVote /\ [][NextVote]_vars

(***************************************************************************)
(* Helpers of the properties                                               *)
(***************************************************************************)
Generators ==
    {"create_classifiers", "new_classifier", "make_corr_classifiers",
     "create_fuzzy_classifiers"}

\* the global the last call bound, when a synthesizer was called
Synthesized ==
    IF call.op = "create_classifiers" THEN classifiers
    ELSE IF call.op = "new_classifier" THEN new_classifier
    ELSE IF call.op = "make_corr_classifiers" THEN corr_classifiers
    ELSE fuzzy_sys
Aggregators == {"do_majority", "fuzzy_ensemble"}

\* a probability: 0 <= p <= 1
InRange(p) == ~Lt(p, False) /\ ~Gt(p, True)

IsBoolean(x) == \A k \in 1..Len(x) : \A i \in 1..Len(x[k]) : x[k][i] \in {False, True}

\* how many of the sequences of x hold True at position i
TrueVotes(x, i) == Cardinality({k \in 1..Len(x) : x[k][i] = True})

\* the exact sum, in quarters, of position i over the first k sequences of x
RECURSIVE QuarterSum(_, _, _)
QuarterSum(x, i, k) == IF k = 0 THEN 0 ELSE QuarterSum(x, i, k - 1) + x[k][i][1]

\* the boolean classifiers create_fuzzy_classifiers fuzzed in the last call
RegularOfCall ==
    create_classifiers(call.input, call.count, call.flip,
                       Take(call.draws, call.count * Len(call.input)))

(***************************************************************************)
(* C1: rounding every value of a fuzzy classifier reproduces the boolean   *)
(* classifier it was fuzzed from, position by position, whatever the       *)
(* draws.  The code breaks this: a true bit fuzzed with the draw 0.0 is    *)
(* (0.0 + 1) / 2 = 0.5, which np.round sends to 0.0.                       *)
(***************************************************************************)
C1_FuzzyRoundTrip ==
    call.op = "create_fuzzy_classifiers" =>
        \A c \in 1..Len(fuzzy_sys) : round_series(fuzzy_sys[c]) = RegularOfCall[c]

(***************************************************************************)
(* C2: on a non-empty list of equal-length boolean classifiers do_majority *)
(* gives 1 where more than half of them are true and 0 where fewer than    *)
(* half are.                                                               *)
(***************************************************************************)
C2_HardVote ==
    (/\ call.op = "do_majority"
     /\ Len(call.arg) > 0
     /\ Rectangular(call.arg)
     /\ IsBoolean(call.arg)) =>
        /\ call.raised = "none"
        /\ prediction.kind = "array"
        /\ Len(prediction.value) = Len(call.arg[1])
        /\ \A i \in 1..Len(call.arg[1]) :
              /\ 2 * TrueVotes(call.arg, i) > Len(call.arg) => prediction.value[i] = True
              /\ 2 * TrueVotes(call.arg, i) < Len(call.arg) => prediction.value[i] = False

\* a vote of four with one dissenter, won by the three true voters
C2_Witness ==
    /\ call.op = "do_majority"
    /\ call.arg = << <<True>>, <<False>>, <<True>>, <<True>> >>
    /\ call.raised = "none"
    /\ prediction.value = <<True>>

(***************************************************************************)
(* C3: where exactly half of an even number of boolean classifiers vote    *)
(* true, do_majority returns the same value at every such position of      *)
(* every call, whoever cast the true votes: 0, the even neighbour of 0.5.  *)
(***************************************************************************)
C3_TieBreak ==
    (/\ call.op = "do_majority"
     /\ Len(call.arg) > 0
     /\ Rectangular(call.arg)
     /\ IsBoolean(call.arg)) =>
        \A i \in 1..Len(call.arg[1]) :
            2 * TrueVotes(call.arg, i) = Len(call.arg) => prediction.value[i] = False

\* a tie of four whose first voter said true
C3_Witness ==
    /\ call.op = "do_majority"
    /\ call.arg = << <<True>>, <<False>>, <<True>>, <<False>> >>
    /\ prediction.value = <<False>>

(***************************************************************************)
(* C4: fuzzy_ensemble returns what do_majority returns on the same list:   *)
(* per position the mean over the classifiers, rounded half to even, so 1  *)
(* exactly where the sum exceeds half the number of classifiers.           *)
(***************************************************************************)
C4_SoftVoteSameRule ==
    call.op = "fuzzy_ensemble" =>
        LET x == call.arg
            hard == do_majority(x)
        IN  /\ call.raised = hard.raised
            /\ hard.raised = "none" => prediction = [kind |-> hard.kind, value |-> hard.value]
            /\ (Len(x) > 0 /\ Rectangular(x)) =>
                  /\ prediction.kind = "array"
                  /\ Len(prediction.value) = Len(x[1])
                  /\ \A i \in 1..Len(x[1]) :
                        prediction.value[i] =
                            IF QuarterSum(x, i, Len(x)) > 2 * Len(x) THEN True ELSE False

\* a soft vote whose mean is exactly 0.5
C4_Witness ==
    /\ call.op = "fuzzy_ensemble"
    /\ call.arg = << <<Half>>, <<True>>, <<False>> >>
    /\ prediction.value = <<False>>

(***************************************************************************)
(* C5: with flip_ratio = 0 create_classifiers returns count classifiers,   *)
(* each equal to the ground truth at every position, whatever the draws;   *)
(* every position agrees, so the agreement rate is 1.                      *)
(***************************************************************************)
C5_NoFlipIsCopy ==
    (call.op = "create_classifiers" /\ call.flip = False) =>
        /\ Len(classifiers) = call.count
        /\ \A c \in 1..Len(classifiers) :
              /\ classifiers[c] = call.input
              /\ Cardinality({i \in 1..Len(call.input) : classifiers[c][i] = call.input[i]})
                     = Len(call.input)

\* a classifier over a mixed ground truth, the draw 0.0 among the draws
C5_Witness ==
    /\ call.op = "create_classifiers"
    /\ call.flip = False
    /\ call.count = 1
    /\ call.input = <<True, False>>
    /\ \E d \in 1..Len(call.draws) : call.draws[d] = <<0, 0>>

(***************************************************************************)
(* C6: with flip_ratio = 1 create_classifiers returns count classifiers,   *)
(* each the complement of the ground truth at every position, whatever     *)
(* the draws.                                                              *)
(***************************************************************************)
C6_FullFlipIsComplement ==
    (call.op = "create_classifiers" /\ call.flip = True) =>
        /\ Len(classifiers) = call.count
        /\ \A c \in 1..Len(classifiers) :
              /\ Len(classifiers[c]) = Len(call.input)
              /\ \A i \in 1..Len(call.input) : classifiers[c][i] = py_not(call.input[i])

\* a classifier over a mixed ground truth, the largest draw among the draws
C6_Witness ==
    /\ call.op = "create_classifiers"
    /\ call.flip = True
    /\ call.count = 1
    /\ call.input = <<False, True>>
    /\ \E d \in 1..Len(call.draws) : call.draws[d] = <<4, -2>>

(***************************************************************************)
(* C7: make_corr_classifiers returns count classifiers, each derived from  *)
(* the one base: element i of output k is not(base[i]) when the draw made  *)
(* for (k, i) is < flip, and base[i] otherwise.                            *)
(***************************************************************************)
C7_CorrFromSharedBase ==
    call.op = "make_corr_classifiers" =>
        /\ Len(corr_classifiers) = call.count
        /\ \A k \in 1..Len(corr_classifiers) :
              /\ Len(corr_classifiers[k]) = Len(call.input)
              /\ \A i \in 1..Len(call.input) :
                    corr_classifiers[k][i] =
                        IF Lt(call.draws[(k - 1) * Len(call.input) + i], call.flip)
                        THEN py_not(call.input[i]) ELSE call.input[i]

\* the first output flipped a position that the second one, and a later
\* position of the first, left as in the base
C7_Witness ==
    /\ call.op = "make_corr_classifiers"
    /\ call.count >= 2
    /\ Len(call.input) >= 1
    /\ corr_classifiers[1] # call.input
    /\ corr_classifiers[2] = call.input

(***************************************************************************)
(* C8: an empty ensemble given to do_majority or fuzzy_ensemble raises an  *)
(* error.  The code raises nothing: np.mean([]) is nan and np.round(nan)   *)
(* is nan, which the call returns.                                         *)
(***************************************************************************)
C8_EmptyEnsembleRaises ==
    (call.op \in Aggregators /\ call.arg = <<>>) =>
        /\ call.raised # "none"
        /\ prediction.kind # "nan"

(***************************************************************************)
(* C9: a flip probability outside [0, 1] makes the synthesizer raise an    *)
(* error and return no classifiers, here for a call that has bits to       *)
(* flip.  The code raises nothing: 1.25 flips every bit as 1 does, -0.25   *)
(* flips none as 0 does.                                                   *)
(***************************************************************************)
C9_FlipOutOfRangeRaises ==
    (/\ call.op \in Generators
     /\ ~InRange(call.flip)
     /\ call.count >= 1
     /\ Len(call.input) >= 1) =>
        /\ call.raised # "none"
        /\ Synthesized = <<>>

(***************************************************************************)
(* C10: sequences of differing lengths given to do_majority or             *)
(* fuzzy_ensemble make the call raise, and no prediction is returned.      *)
(***************************************************************************)
C10_LengthMismatchRaises ==
    (call.op \in Aggregators /\ ~Rectangular(call.arg)) =>
        /\ call.raised = "ValueError"
        /\ prediction = NoPrediction

\* three sequences, the second one shorter than the others
C10_Witness ==
    /\ call.op = "fuzzy_ensemble"
    /\ call.arg = << <<True>>, <<>>, <<False>> >>
    /\ call.raised = "ValueError"

(***************************************************************************)
(* C12: every value fuzzy_ground emits is a probability in [0, 1], in      *)
(* [0.5, 1] when the bit it was made from is true and in [0, 0.5] when it  *)
(* is false, whatever the draw in [0, 1): both for fuzzy_ground called on  *)
(* a sequence and for the values create_fuzzy_classifiers makes with it.   *)
(***************************************************************************)
C12_FuzzyRange ==
    /\ call.op = "fuzzy_ground" =>
          \A i \in 1..Len(prediction.value) :
              /\ InRange(prediction.value[i])
              /\ IF truthy(call.input[i])
                 THEN ~Lt(prediction.value[i], Half)
                 ELSE ~Gt(prediction.value[i], Half)
    /\ call.op = "create_fuzzy_classifiers" =>
          \A c \in 1..Len(fuzzy_sys) : \A i \in 1..Len(fuzzy_sys[c]) :
              /\ InRange(fuzzy_sys[c][i])
              /\ IF truthy(RegularOfCall[c][i])
                 THEN ~Lt(fuzzy_sys[c][i], Half)
                 ELSE ~Gt(fuzzy_sys[c][i], Half)

\* a true bit fuzzed with the largest draw, 1 - 2^-53: (r + 1) / 2 rounds to
\* exactly 1.0, the upper end of the range
C12_Witness ==
    /\ call.op = "create_fuzzy_classifiers"
    /\ RegularOfCall = << <<True>> >>
    /\ call.draws[2] = <<4, -2>>
    /\ fuzzy_sys = << <<True>> >>

\* the lists a call returned, read from the store it left
Deref(o) == [c \in 1..Len(o.refs) |-> o.store[o.refs[c]]]

\* the returned lists are objects of their own: no two are the same object,
\* and none is the argument (reference 1)
OwnStorage(o) ==
    /\ \A c \in 1..Len(o.refs) : o.refs[c] # 1
    /\ \A c, d \in 1..Len(o.refs) : o.refs[c] = o.refs[d] => c = d

(***************************************************************************)
(* C13: no operation changes its inputs, and the lists it returns share no *)
(* storage with them or with each other.  A global changes only in the     *)
(* step that assigns it, whatever the calls and their order: the ground    *)
(* truth stays as create_ground_truth left it, classifiers and             *)
(* new_classifier (whose element is the base given to                      *)
(* make_corr_classifiers) stay as create_classifiers left them, and        *)
(* fuzzy_ground, test_majority, test_fuzzy and the aggregators change      *)
(* none.  Every list a synthesizer returns is an object of its own, so a   *)
(* flip written into one is seen in no other.                              *)
(***************************************************************************)
C13_Frame ==
    [][/\ ground_truth' # ground_truth => call'.op = "create_ground_truth"
       /\ classifiers' # classifiers => call'.op = "create_classifiers"
       /\ new_classifier' # new_classifier => call'.op = "new_classifier"
       /\ corr_classifiers' # corr_classifiers => call'.op = "make_corr_classifiers"
       /\ fuzzy_sys' # fuzzy_sys => call'.op = "create_fuzzy_classifiers"
       /\ call'.op = "create_classifiers" =>
             \A o \in {create_classifiers_objects(call'.input, call'.count,
                                                  call'.flip, call'.draws)} :
                 OwnStorage(o) /\ classifiers' = Deref(o) /\ o.store[1] = call'.input
       /\ call'.op = "new_classifier" =>
             \A o \in {create_classifiers_objects(call'.input, call'.count,
                                                  call'.flip, call'.draws)} :
                 OwnStorage(o) /\ new_classifier' = Deref(o) /\ o.store[1] = call'.input
       /\ call'.op = "make_corr_classifiers" =>
             \A o \in {make_corr_classifiers_objects(call'.input, call'.flip,
                                                     call'.count, call'.draws)} :
                 OwnStorage(o) /\ corr_classifiers' = Deref(o) /\ o.store[1] = call'.input
      ]_vars

\* make_corr_classifiers flipped its first output and not its second, and
\* the base classifier and the ground truth are as they were
C13_Witness ==
    /\ call.op = "make_corr_classifiers"
    /\ call.count = 2
    /\ call.input = <<True>>
    /\ corr_classifiers = << <<False>>, <<True>> >>
    /\ new_classifier = << <<True>> >>
    /\ ground_truth = <<False>>

(***************************************************************************)
(* C14: lengths.  create_ground_truth(n) returns exactly n booleans, the   *)
(* empty sequence for n = 0, and raises nothing.  create_classifiers and   *)
(* make_corr_classifiers return exactly the requested number of            *)
(* classifiers (none for a count of 0), each as long as their input;       *)
(* fuzzy_ground returns as many values as it was given bits; do_majority   *)
(* and fuzzy_ensemble return one value per position of the classifiers     *)
(* they were given.                                                        *)
(***************************************************************************)
C14_Lengths ==
    /\ call.op = "create_ground_truth" =>
          /\ call.raised = "none"
          /\ Len(ground_truth) = call.count
          /\ \A i \in 1..Len(ground_truth) : ground_truth[i] \in {False, True}
    /\ call.op = "create_classifiers" =>
          /\ Len(classifiers) = call.count
          /\ \A c \in 1..Len(classifiers) : Len(classifiers[c]) = Len(call.input)
    /\ call.op = "new_classifier" =>
          /\ Len(new_classifier) = call.count
          /\ \A c \in 1..Len(new_classifier) : Len(new_classifier[c]) = Len(call.input)
    /\ call.op = "make_corr_classifiers" =>
          /\ Len(corr_classifiers) = call.count
          /\ \A c \in 1..Len(corr_classifiers) : Len(corr_classifiers[c]) = Len(call.input)
    /\ call.op = "fuzzy_ground" =>
          /\ prediction.kind = "list"
          /\ Len(prediction.value) = Len(call.input)
    /\ call.op = "create_fuzzy_classifiers" =>
          /\ Len(fuzzy_sys) = call.count
          /\ \A c \in 1..Len(fuzzy_sys) : Len(fuzzy_sys[c]) = Len(RegularOfCall[c])
    /\ call.op = "test_majority" =>
          /\ Len(call.arg) = call.count
          /\ \A c \in 1..Len(call.arg) : Len(call.arg[c]) = Len(call.input)
          /\ Len(do_majority(call.arg).value) = Len(ground_truth)
    /\ call.op = "test_fuzzy" =>
          /\ Len(call.arg) = call.count
          /\ \A c \in 1..Len(call.arg) : Len(call.arg[c]) = Len(call.input)
          /\ Len(fuzzy_ensemble(call.arg).value) = Len(ground_truth)
    /\ (call.op \in Aggregators /\ Len(call.arg) > 0) =>
          /\ call.raised = "none"
          /\ prediction.kind = "array"
          /\ Len(prediction.value) = Len(call.arg[1])
          /\ Len(prediction.value) = Len(ground_truth)

\* three classifiers of one position each, made from a ground truth of one
\* bit, voted into a prediction of one value
C14_Witness ==
    /\ call.op = "do_majority"
    /\ Len(ground_truth) = 1
    /\ Len(classifiers) = 3
    /\ call.arg = classifiers
    /\ \A c \in 1..3 : Len(classifiers[c]) = 1
    /\ Len(prediction.value) = 1

\* how many of the classifiers of x differ from the ground truth at position
\* i: create_classifiers flipped exactly those
Flipped(x, i) == Cardinality({k \in 1..Len(x) : x[k][i] # ground_truth[i]})

(***************************************************************************)
(* C15: create_classifiers negates position i of classifier c exactly when *)
(* its draw is < flip_ratio.  For an odd number of those classifiers no    *)
(* position is tied, and do_majority agrees with the ground truth at i     *)
(* exactly when strictly fewer than half of them were flipped at i.  Given *)
(* one boolean classifier, or several identical ones, do_majority returns  *)
(* that classifier's values.                                               *)
(***************************************************************************)
C15_OddMajority ==
    /\ call.op = "create_classifiers" =>
          \A c \in 1..Len(classifiers) : \A i \in 1..Len(classifiers[c]) :
              (classifiers[c][i] # ground_truth[i])
                  <=> Lt(PassDraws(call.draws, c, Len(call.input))[i], call.flip)
    /\ (/\ call.op = "do_majority"
        /\ call.arg \in Slices(classifiers)
        /\ Len(call.arg) % 2 = 1) =>
          /\ call.raised = "none"
          /\ \A i \in 1..Len(ground_truth) :
                /\ 2 * TrueVotes(call.arg, i) # Len(call.arg)
                /\ (prediction.value[i] = ground_truth[i])
                       <=> (2 * Flipped(call.arg, i) < Len(call.arg))
    /\ call.op = "test_majority" =>
          \A i \in 1..Len(ground_truth) :
              (do_majority(call.arg).value[i] = ground_truth[i])
                  <=> (2 * Flipped(call.arg, i) < Len(call.arg))
    /\ (/\ call.op = "do_majority"
        /\ Len(call.arg) >= 1
        /\ IsBoolean(call.arg)
        /\ \A k \in 1..Len(call.arg) : call.arg[k] = call.arg[1]) =>
          /\ call.raised = "none"
          /\ prediction.value = call.arg[1]

\* three classifiers, the first flipped and the other two not: the vote
\* agrees with the ground truth
C15_Witness ==
    /\ call.op = "do_majority"
    /\ ground_truth = <<True>>
    /\ classifiers = << <<False>>, <<True>>, <<True>> >>
    /\ call.arg = classifiers
    /\ prediction.value = <<True>>

\* position i of classifier c as draw r leaves it: negated when r < flip
FlippedBit(input, i, r, flip) == IF Lt(r, flip) THEN py_not(input[i]) ELSE input[i]

\* the value fuzzy_ground makes of a bit with draw r
Fuzzed(bit, r) == IF truthy(bit) THEN fl_half(fl_add(r, True)) ELSE fl_half(r)

(***************************************************************************)
(* C16: the generator is consumed strictly in order.  Every step takes the *)
(* next draws of the stream and leaves the rest as it was.                 *)
(* create_ground_truth takes one draw per bit; create_classifiers and      *)
(* make_corr_classifiers take one per (classifier, position), classifier   *)
(* by classifier and position by position, whether or not the bit is set   *)
(* or gets flipped; fuzzy_ground takes one per element;                    *)
(* create_fuzzy_classifiers takes its count * N flip draws first and then  *)
(* one fuzz draw per element, 2 * count * N in all (test_majority and      *)
(* test_fuzzy take what the synthesizer they call takes); do_majority and  *)
(* fuzzy_ensemble take none and leave the stream alone.                    *)
(***************************************************************************)
C16_SequentialDraws ==
    [][LET op == call'.op
           d == call'.draws
           input == call'.input
           n == Len(call'.input)
           count == call'.count
       IN  /\ rng = d \o rng'
           /\ op = "create_ground_truth" => Len(d) = count
           /\ op = "create_classifiers" =>
                 /\ Len(d) = count * n
                 /\ \A c \in 1..count : \A i \in 1..n :
                       classifiers'[c][i] = FlippedBit(input, i, d[(c - 1) * n + i], call'.flip)
           /\ op = "new_classifier" =>
                 /\ Len(d) = n
                 /\ \A i \in 1..n :
                       new_classifier'[1][i] = FlippedBit(input, i, d[i], call'.flip)
           /\ op = "fuzzy_ground" =>
                 /\ Len(d) = n
                 /\ \A i \in 1..n : prediction'.value[i] = Fuzzed(input[i], d[i])
           /\ op = "test_majority" => Len(d) = count * n
           /\ op = "test_fuzzy" => Len(d) = 2 * count * n
           /\ op = "make_corr_classifiers" =>
                 /\ Len(d) = count * n
                 /\ \A c \in 1..count : \A i \in 1..n :
                       corr_classifiers'[c][i] =
                           FlippedBit(input, i, d[(c - 1) * n + i], call'.flip)
           /\ op = "create_fuzzy_classifiers" =>
                 /\ Len(d) = 2 * count * n
                 /\ \A c \in 1..count : \A i \in 1..n :
                       fuzzy_sys'[c][i] =
                           Fuzzed(FlippedBit(input, i, d[(c - 1) * n + i], call'.flip),
                                  d[count * n + (c - 1) * n + i])
           /\ op \in Aggregators => d = <<>> /\ rng' = rng
      ]_vars

\* two fuzzy classifiers of one position: draws 1 and 2 decided the flips
\* (the first flipped, the second not), draws 3 and 4 the fuzz, and the one
\* draw left in the stream is untouched
C16_Witness ==
    /\ call.op = "create_fuzzy_classifiers"
    /\ call.input = <<True>>
    /\ call.count = 2
    /\ call.flip = Half
    /\ call.draws = << <<0, 0>>, <<2, 0>>, <<4, -2>>, <<0, 0>> >>
    /\ fuzzy_sys = << << <<2, -1>> >>, << <<2, 0>> >> >>
    /\ Len(rng) = MaxStream - 5

====
